---- MODULE Spec2Model ----
(***************************************************************************)
(* A model of internal/tsc_wrapped/file_cache.ts: the FileCache (an LRU    *)
(* store of parsed files keyed by path, each entry stamped with the digest *)
(* bazel supplied for it), the ledger of the last compile run's digests,   *)
(* and the cached file loader over them.                                   *)
(*                                                                         *)
(* A JavaScript object used as a map iterates its (non-integer) string     *)
(* keys in insertion order, so fileCache is a sequence of entries, oldest  *)
(* first.  A path is a sequence of tokens, "/" being path.sep.             *)
(***************************************************************************)
EXTENDS Naturals, Sequences, FiniteSets

VARIABLES
  fileCache,              \* FileCache.fileCache: <<[path, digest, value], ...>>
  lastDigests,            \* FileCache.lastDigests: a function path -> digest
  cacheStats,             \* FileCache.cacheStats: [hits, reads, readTimeMs]
  allowNonHermeticReads,  \* CachedFileLoader.allowNonHermeticReads
  last,                   \* what the last call returned, threw and logged
  recency,                \* history: cached paths by last putCache or hit
  foreign                 \* history: cached paths put with a digest that was
                          \* not the ledger's digest for the path at the time

vars == <<fileCache, lastDigests, cacheStats, allowNonHermeticReads, last,
          recency, foreign>>

-----------------------------------------------------------------------------
(* Bounds of the model. *)

\* cacheStats.reads is not counted past this; resetStats starts it again.
MaxReads == 2

\* cacheStats.readTimeMs is not counted past this.
MaxReadTimeMs == 1

\* The two Date.now() calls of putCache are at most this far apart.
MaxTick == 1

\* The identities e1, e2, ... of the eviction scenario.
NumIds == 11

\* The getCache calls of the eviction scenario.
MaxEvictGets == 1

-----------------------------------------------------------------------------
(* Paths, digests and file contents. *)

Sep == "/"

\* "not_node_modules/a.ts": node_modules is part of a segment, not a segment.
PathA == <<"not_", "node_modules", Sep, "a.ts">>

\* "lib/node_modules/x.d.ts"
PathNM == <<"lib", Sep, "node_modules", Sep, "x.d.ts">>

\* "b.ts"
PathB == <<"b.ts">>

Paths == {PathA, PathNM}

StorePaths == {PathA, PathNM, PathB}

IdNames ==
  <<"e1", "e2", "e3", "e4", "e5", "e6", "e7", "e8", "e9", "e10", "e11",
    "e12", "e13", "e14">>

Id(i) == <<IdNames[i]>>

Ids == {Id(i) : i \in 1..NumIds}

\* Digests are opaque strings; the empty string is one of them.
Digests == {"", "d1", "d2"}

Texts == {"t1", "t2"}

\* What ts.createSourceFile(fileName, sourceText, langVer, true) returns.
createSourceFile(fileName, sourceText, langVer) ==
  <<fileName, sourceText, langVer>>

SourceFiles(fileNames, texts, langVers) ==
  {createSourceFile(n, t, l) : n \in fileNames, t \in texts, l \in langVers}

\* No value: what a call that returns nothing, or undefined, leaves.
NoValue == <<>>

NoEntry == [digest |-> "", value |-> NoValue]

\* All the digest mappings over a set of paths.
DigestMaps(ps) == UNION {[d -> Digests] : d \in SUBSET ps}

EmptyMap == [p \in {} |-> ""]

-----------------------------------------------------------------------------
(* The object fileCache as an ordered map. *)

Keys(cache) == {cache[i].path : i \in 1..Len(cache)}

HasKey(cache, fp) == fp \in Keys(cache)

IndexOf(cache, fp) == CHOOSE i \in 1..Len(cache) : cache[i].path = fp

\* this.fileCache[fp], for a key that is there
EntryOf(cache, fp) == cache[IndexOf(cache, fp)]

\* delete this.fileCache[fp]
Delete(cache, fp) == SelectSeq(cache, LAMBDA e : e.path # fp)

\* Assign with a fault: a key that is there keeps its old entry.
Assign_KeepExisting(cache, fp, entry) ==
  IF HasKey(cache, fp)
    THEN cache
    ELSE Append(cache, [path |-> fp, digest |-> entry.digest,
                        value |-> entry.value])

\* this.fileCache[fp] = entry: a key that is there keeps its place, a new
\* key goes to the end.
Assign(cache, fp, entry) ==
  LET e == [path |-> fp, digest |-> entry.digest, value |-> entry.value]
  IN  IF HasKey(cache, fp)
        THEN [cache EXCEPT ![IndexOf(cache, fp)] = e]
        ELSE Append(cache, e)

\* The paths of a sequence of paths that are still keys of cache.
Restrict(ps, cache) == SelectSeq(ps, LAMBDA p : HasKey(cache, p))

\* The path fp moved to the end of a sequence of paths.
Touch(ps, fp) == Append(SelectSeq(ps, LAMBDA p : p # fp), fp)

-----------------------------------------------------------------------------
(* FileCache *)

\* DropChanged with a fault: a key whose new digest is "" is passed over
\* (entry && digests[fp] && entry.digest !== digests[fp]).
DropChanged_Truthy(cache, digests) ==
  SelectSeq(cache, LAMBDA e :
    ~(e.path \in DOMAIN digests /\ digests[e.path] # ""
      /\ e.digest # digests[e.path]))

\* DropChanged with a fault: the loop ends after its first deletion.
DropChanged_First(cache, digests) ==
  LET changed == {i \in 1..Len(cache) :
                    /\ cache[i].path \in DOMAIN digests
                    /\ cache[i].digest # digests[cache[i].path]}
  IN  IF changed = {}
        THEN cache
        ELSE LET i == CHOOSE j \in changed : \A k \in changed : j <= k
             IN  SubSeq(cache, 1, i - 1) \o SubSeq(cache, i + 1, Len(cache))

\* DropChanged with a fault: the loop runs over the cache's keys, and an
\* entry whose path digests does not have is deleted too.
DropChanged_Undeclared(cache, digests) ==
  SelectSeq(cache, LAMBDA e :
    e.path \in DOMAIN digests /\ e.digest = digests[e.path])

\* DropChanged with a fault: an entry that carries another digest is given
\* the new digest and kept.
DropChanged_Restamp(cache, digests) ==
  [i \in 1..Len(cache) |->
     IF cache[i].path \in DOMAIN digests
       THEN [cache[i] EXCEPT !.digest = digests[cache[i].path]]
       ELSE cache[i]]

\* The loop of updateCache: every key of digests whose entry carries another
\* digest is deleted.
DropChanged(cache, digests) ==
  SelectSeq(cache, LAMBDA e :
    ~(e.path \in DOMAIN digests /\ e.digest # digests[e.path]))

\* !!this.lastDigests[filePath]: a digest is there and is not "".
isKnownInput(filePath) ==
  filePath \in DOMAIN lastDigests /\ lastDigests[filePath] # ""

\* getLastDigest throws exactly when !digest.
LastDigestMissing(filePath) ==
  ~(filePath \in DOMAIN lastDigests /\ lastDigests[filePath] # "")

\* getLastDigest(filePath): it throws, or returns the digest.
getLastDigest(filePath) ==
  IF LastDigestMissing(filePath)
    THEN [threw |-> TRUE, digest |-> ""]
    ELSE [threw |-> FALSE, digest |-> lastDigests[filePath]]

\* MoveToEnd with a fault: the entry stays where it is.
MoveToEnd_InPlace(cache, filePath) == cache

\* getCache's hit: the entry is deleted and inserted again, at the end.
MoveToEnd(cache, filePath) ==
  Append(Delete(cache, filePath), EntryOf(cache, filePath))

\* Math.round(n / 2): a half rounds up.
Dropped(n) == (n + 1) \div 2

\* Evict with a fault: the loop stops one key early (i < dropped - 1).
Evict_OneShort(cache, shouldFreeMemory) ==
  IF shouldFreeMemory /\ Len(cache) > 0
    THEN SubSeq(cache, Dropped(Len(cache)), Len(cache))
    ELSE cache

\* putCache's eviction: the first Dropped(n) keys are deleted.
Evict(cache, shouldFreeMemory) ==
  IF shouldFreeMemory
    THEN SubSeq(cache, Dropped(Len(cache)) + 1, Len(cache))
    ELSE cache

\* PutResult with a fault: room is made after the entry is assigned.
PutResult_EvictLast(cache, filePath, entry, shouldFreeMemory) ==
  Evict(Assign(cache, filePath, entry), shouldFreeMemory)

\* putCache on the store: eviction, then the assignment.
PutResult(cache, filePath, entry, shouldFreeMemory) ==
  Assign(Evict(cache, shouldFreeMemory), filePath, entry)

\* The history of a putCache.
PutHistory(filePath, entry) ==
  /\ recency' = Touch(Restrict(recency, fileCache'), filePath)
  /\ foreign' =
       LET rest == (foreign \cap Keys(fileCache')) \ {filePath}
       IN  IF filePath \in DOMAIN lastDigests
              /\ lastDigests[filePath] = entry.digest
             THEN rest
             ELSE rest \cup {filePath}

Ret(kind, val) == [kind |-> kind, val |-> val]

\* What a call leaves in last: the call (op, path), the entry given (to a
\* putCache; a getCache that follows a putCache of its path at once keeps
\* it; of a loadFile, the name and version asked for), what the call
\* returned or threw (ret), whether it read the file
\* (fresh), whether shouldFreeMemory() was true (free), putCache's dropped
\* count and the paths updateCache dropped (stale).
Call(op, fp, given, ret, fresh, free, dropped, stale) ==
  [op |-> op, path |-> fp, given |-> given, ret |-> ret, fresh |-> fresh,
   free |-> free, dropped |-> dropped, stale |-> stale]

\* The entry given by the call before, when that was a putCache of filePath.
JustPut(filePath) ==
  IF last.op = "putCache" /\ last.path = filePath THEN last.given ELSE NoEntry

\* Counted with a fault: hits++ comes before the test of the entry.
Counted_Always(stats, hit) ==
  [stats EXCEPT !.reads = @ + 1, !.hits = @ + 1]

\* Counted with a fault: a hit is counted as a hit and not as a read.
Counted_HitOrRead(stats, hit) ==
  IF hit THEN [stats EXCEPT !.hits = @ + 1]
         ELSE [stats EXCEPT !.reads = @ + 1]

\* getCache's counters: reads++, and hits++ on a hit.
Counted(stats, hit) ==
  [stats EXCEPT !.reads = @ + 1, !.hits = IF hit THEN @ + 1 ELSE @]

updateCache(digests) ==
  /\ lastDigests' = digests
  /\ fileCache' = DropChanged(fileCache, digests)
  /\ recency' = Restrict(recency, fileCache')
  /\ foreign' = foreign \cap Keys(fileCache')
  /\ last' = Call("updateCache", <<>>, NoEntry, Ret("none", NoValue), FALSE,
                  FALSE, 0, Keys(fileCache) \ Keys(fileCache'))
  /\ UNCHANGED <<cacheStats, allowNonHermeticReads>>

getCache(filePath) ==
  /\ cacheStats.reads < MaxReads
  /\ IF ~HasKey(fileCache, filePath)
       THEN /\ cacheStats' = Counted(cacheStats, FALSE)
            /\ last' = Call("getCache", filePath, JustPut(filePath),
                            Ret("undefined", NoValue), FALSE, FALSE, 0, {})
            /\ UNCHANGED <<fileCache, recency>>
       ELSE /\ cacheStats' = Counted(cacheStats, TRUE)
            /\ fileCache' = MoveToEnd(fileCache, filePath)
            /\ recency' = Touch(recency, filePath)
            /\ last' = Call("getCache", filePath, JustPut(filePath),
                            Ret("value", EntryOf(fileCache, filePath).value),
                            FALSE, FALSE, 0, {})
  /\ UNCHANGED <<lastDigests, allowNonHermeticReads, foreign>>

\* !!value of what getCache returns: undefined is falsy, a source file is
\* an object and truthy.
Truthy(value) == value # NoValue

\* inCache with a fault: the store is asked for the key and not read.
inCache_Pure(filePath) ==
  /\ cacheStats.reads < MaxReads
  /\ last' = Call("inCache", filePath, NoEntry,
                  Ret(IF HasKey(fileCache, filePath) THEN "true" ELSE "false",
                      NoValue),
                  FALSE, FALSE, 0, {})
  /\ UNCHANGED <<fileCache, lastDigests, cacheStats, allowNonHermeticReads,
                 recency, foreign>>

\* inCache(filePath): !!this.getCache(filePath).
inCache(filePath) ==
  /\ cacheStats.reads < MaxReads
  /\ IF ~HasKey(fileCache, filePath)
       THEN /\ cacheStats' = Counted(cacheStats, FALSE)
            /\ last' = Call("inCache", filePath, NoEntry,
                            Ret("false", NoValue), FALSE, FALSE, 0, {})
            /\ UNCHANGED <<fileCache, recency>>
       ELSE /\ cacheStats' = Counted(cacheStats, TRUE)
            /\ fileCache' = MoveToEnd(fileCache, filePath)
            /\ recency' = Touch(recency, filePath)
            /\ last' = Call("inCache", filePath, NoEntry,
                            Ret(IF Truthy(EntryOf(fileCache, filePath).value)
                                  THEN "true" ELSE "false", NoValue),
                            FALSE, FALSE, 0, {})
  /\ UNCHANGED <<lastDigests, allowNonHermeticReads, foreign>>

putCache(filePath, entry, shouldFreeMemory, tick) ==
  /\ cacheStats.readTimeMs + tick <= MaxReadTimeMs
  /\ cacheStats' = [cacheStats EXCEPT !.readTimeMs = @ + tick]
  /\ fileCache' = PutResult(fileCache, filePath, entry, shouldFreeMemory)
  /\ PutHistory(filePath, entry)
  /\ last' = Call("putCache", filePath, entry, Ret("none", NoValue), FALSE,
                  shouldFreeMemory,
                  IF shouldFreeMemory THEN Dropped(Len(fileCache)) ELSE 0, {})
  /\ UNCHANGED <<lastDigests, allowNonHermeticReads>>

\* resetStats with a fault: the cache is emptied along with its counters.
resetStats_Clears ==
  /\ cacheStats' = [hits |-> 0, reads |-> 0, readTimeMs |-> 0]
  /\ fileCache' = <<>>
  /\ recency' = <<>>
  /\ foreign' = {}
  /\ last' = Call("resetStats", <<>>, NoEntry, Ret("none", NoValue), FALSE,
                  FALSE, 0, {})
  /\ UNCHANGED <<lastDigests, allowNonHermeticReads>>

resetStats ==
  /\ cacheStats' = [hits |-> 0, reads |-> 0, readTimeMs |-> 0]
  /\ last' = Call("resetStats", <<>>, NoEntry, Ret("none", NoValue), FALSE,
                  FALSE, 0, {})
  /\ UNCHANGED <<fileCache, lastDigests, allowNonHermeticReads, recency,
                 foreign>>

-----------------------------------------------------------------------------
(* The loaders *)

\* filePath.split(path.sep): the segments between the separators.
RECURSIVE Split(_)
Split(filePath) ==
  IF \A i \in 1..Len(filePath) : filePath[i] # Sep
    THEN <<filePath>>
    ELSE LET i == CHOOSE j \in 1..Len(filePath) :
                    /\ filePath[j] = Sep
                    /\ \A k \in 1..(j - 1) : filePath[k] # Sep
         IN  <<SubSeq(filePath, 1, i - 1)>>
               \o Split(SubSeq(filePath, i + 1, Len(filePath)))

\* filePath.split(path.sep).indexOf('node_modules') !== -1
isNonHermeticInput(filePath) ==
  \E i \in 1..Len(Split(filePath)) : Split(filePath)[i] = <<"node_modules">>

\* NotCached with a fault: the ! before isKnownInput is missing.
NotCached_Known(filePath) ==
  /\ allowNonHermeticReads
  /\ isKnownInput(filePath)
  /\ isNonHermeticInput(filePath)

\* The test of loadFile that returns the file without caching it.
NotCached(filePath) ==
  /\ allowNonHermeticReads
  /\ ~isKnownInput(filePath)
  /\ isNonHermeticInput(filePath)

\* What loadFile was asked for: the file name and the language version.
Asked(fileName, langVer) == [digest |-> "", value |-> <<fileName, langVer>>]

\* loadFile's hit: what getCache does on a hit, and its value returned.
LoadHit(fileName, filePath, langVer) ==
  /\ cacheStats' = Counted(cacheStats, TRUE)
  /\ fileCache' = MoveToEnd(fileCache, filePath)
  /\ recency' = Touch(recency, filePath)
  /\ last' = Call("loadFile", filePath, Asked(fileName, langVer),
                  Ret("value", EntryOf(fileCache, filePath).value),
                  FALSE, FALSE, 0, {})
  /\ UNCHANGED foreign

\* LoadThrows with a fault: the store is made room in before the file is
\* read and its digest looked up.
LoadThrows_Evicted(fileName, filePath, langVer, kind) ==
  /\ cacheStats' = Counted(cacheStats, FALSE)
  /\ fileCache' = Evict(fileCache, TRUE)
  /\ recency' = Restrict(recency, fileCache')
  /\ foreign' = foreign \cap Keys(fileCache')
  /\ last' = Call("loadFile", filePath, Asked(fileName, langVer),
                  Ret(kind, NoValue), TRUE, FALSE, 0, {})

\* loadFile after a miss, when fs.readFileSync throws (kind "IOError") or
\* getLastDigest throws (kind "MissingDigest"): the miss has been counted.
LoadThrows(fileName, filePath, langVer, kind) ==
  /\ cacheStats' = Counted(cacheStats, FALSE)
  /\ last' = Call("loadFile", filePath, Asked(fileName, langVer),
                  Ret(kind, NoValue), TRUE, FALSE, 0, {})
  /\ UNCHANGED <<fileCache, recency, foreign>>

\* loadFile after a miss, of a file that is not to be cached.
LoadOnly(fileName, filePath, langVer, sourceText) ==
  /\ cacheStats' = Counted(cacheStats, FALSE)
  /\ last' = Call("loadFile", filePath, Asked(fileName, langVer),
                  Ret("value",
                      createSourceFile(fileName, sourceText, langVer)),
                  TRUE, FALSE, 0, {})
  /\ UNCHANGED <<fileCache, recency, foreign>>

\* loadFile after a miss, of a file that is cached under its last digest.
LoadAndPut(fileName, filePath, langVer, sourceText, free, tick) ==
  LET sourceFile == createSourceFile(fileName, sourceText, langVer)
      entry == [digest |-> lastDigests[filePath], value |-> sourceFile]
  IN  /\ cacheStats.readTimeMs + tick <= MaxReadTimeMs
      /\ cacheStats' = [Counted(cacheStats, FALSE)
                          EXCEPT !.readTimeMs = @ + tick]
      /\ fileCache' = PutResult(fileCache, filePath, entry, free)
      /\ PutHistory(filePath, entry)
      /\ last' = Call("loadFile", filePath, Asked(fileName, langVer),
                      Ret("value", sourceFile), TRUE, free,
                      IF free THEN Dropped(Len(fileCache)) ELSE 0, {})

\* loadFile with a fault: the digest is looked up before the store is asked.
loadFile_DigestFirst(fileName, filePath, langVer, readOk, sourceText, free, tick) ==
  /\ cacheStats.reads < MaxReads
  /\ UNCHANGED <<lastDigests, allowNonHermeticReads>>
  /\ IF LastDigestMissing(filePath) /\ ~NotCached(filePath)
       THEN LoadThrows(fileName, filePath, langVer, "MissingDigest")
       ELSE IF HasKey(fileCache, filePath)
       THEN LoadHit(fileName, filePath, langVer)
       ELSE IF ~readOk
       THEN LoadThrows(fileName, filePath, langVer, "IOError")
       ELSE IF NotCached(filePath)
       THEN LoadOnly(fileName, filePath, langVer, sourceText)
       ELSE LoadAndPut(fileName, filePath, langVer, sourceText, free, tick)

\* CachedFileLoader.loadFile.  readOk and sourceText are what
\* fs.readFileSync does: it throws, or returns the file's text; free is
\* what shouldFreeMemory() returns and tick what the clock does in putCache.
loadFile(fileName, filePath, langVer, readOk, sourceText, free, tick) ==
  /\ cacheStats.reads < MaxReads
  /\ UNCHANGED <<lastDigests, allowNonHermeticReads>>
  /\ IF HasKey(fileCache, filePath)
       THEN LoadHit(fileName, filePath, langVer)
       ELSE IF ~readOk
       THEN LoadThrows(fileName, filePath, langVer, "IOError")
       ELSE IF NotCached(filePath)
       THEN LoadOnly(fileName, filePath, langVer, sourceText)
       ELSE IF LastDigestMissing(filePath)
       THEN LoadThrows(fileName, filePath, langVer, "MissingDigest")
       ELSE LoadAndPut(fileName, filePath, langVer, sourceText, free, tick)

\* UncachedFileLoader.loadFile with a fault: the read is counted in the
\* cache's statistics.
uncachedLoadFile_Counted(fileName, filePath, langVer, readOk, sourceText) ==
  /\ cacheStats.reads < MaxReads
  /\ cacheStats' = Counted(cacheStats, FALSE)
  /\ last' = Call("uncachedLoadFile", filePath, Asked(fileName, langVer),
                  IF readOk
                    THEN Ret("value",
                             createSourceFile(fileName, sourceText, langVer))
                    ELSE Ret("IOError", NoValue),
                  TRUE, FALSE, 0, {})
  /\ UNCHANGED <<fileCache, lastDigests, allowNonHermeticReads, recency,
                 foreign>>

\* UncachedFileLoader.loadFile: the file is read and parsed, or
\* fs.readFileSync throws.
uncachedLoadFile(fileName, filePath, langVer, readOk, sourceText) ==
  /\ last' = Call("uncachedLoadFile", filePath, Asked(fileName, langVer),
                  IF readOk
                    THEN Ret("value",
                             createSourceFile(fileName, sourceText, langVer))
                    ELSE Ret("IOError", NoValue),
                  TRUE, FALSE, 0, {})
  /\ UNCHANGED <<fileCache, lastDigests, cacheStats, allowNonHermeticReads,
                 recency, foreign>>

-----------------------------------------------------------------------------
(* The calls a specification makes, over the inputs it draws. *)

InitCache ==
  /\ fileCache = <<>>
  /\ lastDigests = EmptyMap
  /\ cacheStats = [hits |-> 0, reads |-> 0, readTimeMs |-> 0]
  /\ last = [op |-> "constructor", path |-> <<>>,
             given |-> NoEntry, ret |-> Ret("none", NoValue),
             fresh |-> FALSE, free |-> FALSE, dropped |-> 0, stale |-> {}]
  /\ recency = <<>>
  /\ foreign = {}

DoUpdateCache(maps) == \E digests \in maps : updateCache(digests)

DoGetCache(paths) == \E fp \in paths : getCache(fp)

DoPutCache(paths, entries, ticks) ==
  \E fp \in paths, entry \in entries, free \in BOOLEAN, tick \in ticks :
    putCache(fp, entry, free, tick)

DoLoadFile(paths, texts, ticks) ==
  \E fp \in paths, readOk \in BOOLEAN, sourceText \in texts,
     free \in BOOLEAN, tick \in ticks :
    loadFile("x.ts", fp, "ES5", readOk, sourceText, free, tick)

DoInCache(paths) == \E fp \in paths : inCache(fp)

DoLoadFileAs(paths, fileNames, langVers, texts, ticks) ==
  \E fp \in paths, fileName \in fileNames, langVer \in langVers,
     readOk \in BOOLEAN, sourceText \in texts, free \in BOOLEAN,
     tick \in ticks :
    loadFile(fileName, fp, langVer, readOk, sourceText, free, tick)

DoUncachedLoadFile(paths, texts) ==
  \E fp \in paths, readOk \in BOOLEAN, sourceText \in texts :
    uncachedLoadFile("x.ts", fp, "ES5", readOk, sourceText)

-----------------------------------------------------------------------------
(* Spec: the cache and a cached loader over it, every call in any order.   *)
(* The files all hold the same text and the clock does not advance inside  *)
(* putCache; SpecStore and SpecLoader vary those.                          *)

Init ==
  /\ InitCache
  /\ allowNonHermeticReads \in BOOLEAN

Next ==
  \/ DoUpdateCache(DigestMaps(Paths))
  \/ DoGetCache(Paths)
  \/ DoPutCache(Paths,
                [digest : Digests,
                 value : SourceFiles({"x.ts"}, {"t1"}, {"ES5"})], {0})
  \/ DoLoadFile(Paths, {"t1"}, {0})
  \/ resetStats

Spec == Init /\ [][Next]_vars

-----------------------------------------------------------------------------
(* SpecLoader: the cache filled by the cached loader alone, as             *)
(* tsc_wrapped uses it; the files' texts change between reads.             *)

NextLoader ==
  \/ DoUpdateCache(DigestMaps(Paths))
  \/ DoGetCache(Paths)
  \/ DoLoadFile(Paths, Texts, {0})
  \/ resetStats

SpecLoader == Init /\ [][NextLoader]_vars

-----------------------------------------------------------------------------
(* SpecStore: the store alone, as an LRUCache of three paths.              *)

InitStore ==
  /\ InitCache
  /\ allowNonHermeticReads = FALSE

NextStore ==
  \/ DoUpdateCache({EmptyMap, [p \in {PathA} |-> "d2"],
                    [p \in {PathA, PathB} |-> "d1"]})
  \/ DoGetCache(StorePaths)
  \/ DoPutCache(StorePaths,
                [digest : {"d1"},
                 value : SourceFiles({"x.ts"}, Texts, {"ES5"})],
                0..MaxTick)
  \/ resetStats

SpecStore == InitStore /\ [][NextStore]_vars

-----------------------------------------------------------------------------
(* SpecEvict: the store filled with e1, e2, ... in order, read a few       *)
(* times, and then put into under memory pressure.                         *)

IdEntry == [digest |-> "d1", value |-> createSourceFile("x.ts", "t1", "ES5")]

EvictFill ==
  \E i \in 1..(NumIds - 1) :
    /\ Keys(fileCache) = {Id(j) : j \in 1..(i - 1)}
    /\ putCache(Id(i), IdEntry, FALSE, 0)

EvictGet ==
  /\ cacheStats.reads < MaxEvictGets
  /\ DoGetCache(Ids)

EvictPut == \E fp \in Ids : putCache(fp, IdEntry, TRUE, 0)

NextEvict ==
  \/ EvictFill
  \/ EvictGet
  \/ EvictPut

SpecEvict == InitStore /\ [][NextEvict]_vars

-----------------------------------------------------------------------------
(* SpecAll: Spec's calls, and inCache.                                     *)

NextAll ==
  \/ Next
  \/ DoInCache(Paths)

SpecAll == Init /\ [][NextAll]_vars

-----------------------------------------------------------------------------
(* SpecUncached: SpecLoader's calls, and an uncached loader beside the     *)
(* cache.                                                                  *)

NextUncached ==
  \/ NextLoader
  \/ DoUncachedLoadFile(Paths, Texts)

SpecUncached == Init /\ [][NextUncached]_vars

-----------------------------------------------------------------------------
(* SpecNames: the cached loader asked for the same paths under two file    *)
(* names and two language versions.                                        *)

FileNames == {"x.ts", "y.ts"}
LangVers == {"ES5", "ES2015"}

NextNames ==
  \/ DoUpdateCache({EmptyMap} \cup [Paths -> {"d1", "d2"}])
  \/ DoLoadFileAs(Paths, FileNames, LangVers, {"t1"}, {0})
  \/ resetStats

SpecNames == Init /\ [][NextNames]_vars

-----------------------------------------------------------------------------
(* Properties *)

\* The last call was served from the store: a hit of getCache, alone or
\* inside loadFile.
ServedFromCache ==
  /\ last.op \in {"getCache", "loadFile"}
  /\ last.ret.kind = "value"
  /\ ~last.fresh

\* The entry of fp carries the digest the ledger has for fp, if it has one.
LedgerAgrees(fp) ==
  fp \in DOMAIN lastDigests => EntryOf(fileCache, fp).digest = lastDigests[fp]

\* C1, as claimed: whatever the calls before it (updateCache, getCache,
\* putCache, loadFile), a file served from the store comes from an entry
\* whose digest is the one the ledger now has for the path.
C1_ServedDigestIsLedgerDigest == ServedFromCache => LedgerAgrees(last.path)

\* C1, amended: a file served from the store comes from an entry whose digest
\* is the one the ledger now has for the path, when the entry was put with
\* the digest the ledger had for the path at the time (as loadFile puts it).
\* A putCache with any other digest is served as it was put.
C1_ServedStampedDigestIsLedgerDigest ==
  ServedFromCache /\ last.path \notin foreign => LedgerAgrees(last.path)

\* An entry loadFile put under "d2" is served while the ledger says "d2".
C1_Witness ==
  /\ ServedFromCache
  /\ last.op = "loadFile"
  /\ last.path \notin foreign
  /\ last.path \in DOMAIN lastDigests
  /\ lastDigests[last.path] = "d2"
  /\ EntryOf(fileCache, last.path).digest = "d2"

\* C2: right after updateCache(digests), every entry left whose path is a
\* key of digests carries digests[path]: the update itself has dropped the
\* others.
C2_NoChangedEntryAfterUpdate ==
  last.op = "updateCache" =>
    \A i \in 1..Len(fileCache) :
      fileCache[i].path \in DOMAIN lastDigests =>
        fileCache[i].digest = lastDigests[fileCache[i].path]

\* An update has dropped one entry and kept another that it names.
C2_Witness ==
  /\ last.op = "updateCache"
  /\ last.stale # {}
  /\ \E i \in 1..Len(fileCache) : fileCache[i].path \in DOMAIN lastDigests

\* C3, as claimed: an updateCache that gives a cached path the digest of its
\* entry keeps the entry, and the load after it is a hit with no read; an
\* updateCache that gives it another digest d2 drops the entry, and the load
\* after it reads the file and, the read done, leaves an entry under d2.
C3_UpdateThenLoad ==
  [][/\ last'.op = "updateCache" =>
          \A i \in 1..Len(fileCache) :
            LET e == fileCache[i]
            IN  e.path \in DOMAIN lastDigests' =>
                  IF lastDigests'[e.path] = e.digest
                    THEN /\ HasKey(fileCache', e.path)
                         /\ EntryOf(fileCache', e.path) = e
                    ELSE /\ ~HasKey(fileCache', e.path)
                         /\ e.path \in last'.stale
     /\ last.op = "updateCache" /\ last'.op = "loadFile" =>
          LET fp == last'.path
          IN  /\ HasKey(fileCache, fp) =>
                   /\ ~last'.fresh
                   /\ last'.ret = Ret("value", EntryOf(fileCache, fp).value)
              /\ fp \in last.stale =>
                   /\ last'.fresh
                   /\ last'.ret.kind # "IOError" =>
                        /\ HasKey(fileCache', fp)
                        /\ EntryOf(fileCache', fp).digest = lastDigests[fp]
    ]_vars

\* C4: a putCache under memory pressure into a store of n entries leaves at
\* most ceil(n / 2) of them (the entry of the path put is the new one), and
\* the new entry is in the store; with n = 10 and a new path, 5 are left and
\* the store holds 6.
C4_PressurePutKeepsAtMostHalf ==
  [][last'.op = "putCache" /\ last'.free =>
       LET n == Len(fileCache)
           kept == {fp \in Keys(fileCache) \ {last'.path} :
                      HasKey(fileCache', fp)}
       IN  /\ Cardinality(kept) <= n - (n \div 2)
           /\ HasKey(fileCache', last'.path)
           /\ EntryOf(fileCache', last'.path).value = last'.given.value
           /\ n = 10 /\ ~HasKey(fileCache, last'.path) =>
                /\ Cardinality(kept) = 5
                /\ Len(fileCache') = 6
    ]_vars

\* e11 has been put under pressure into a store of ten: five were dropped.
C4_Witness ==
  /\ last.op = "putCache"
  /\ last.free
  /\ last.path = Id(11)
  /\ last.dropped = 5
  /\ Len(fileCache) = 6

\* The place of a path in a sequence of paths.
Place(ps, fp) == CHOOSE i \in 1..Len(ps) : ps[i] = fp

\* C5, as claimed: when a putCache evicts under pressure, no entry that was
\* there and is kept was last put or hit before an entry that is evicted.
C5_EvictsLeastRecentlyUsed ==
  [][last'.op = "putCache" /\ last'.free =>
       LET n == Len(fileCache)
           evicted == {fileCache[i].path : i \in 1..last'.dropped}
           kept == {fileCache[i].path : i \in (last'.dropped + 1)..n}
                     \ {last'.path}
       IN  \A k \in kept, e \in evicted :
             Place(recency, k) > Place(recency, e)
    ]_vars

\* C6: a getCache of a path right after a putCache of that path returns the
\* value of the entry put, whatever the store held and whether or not the
\* putCache evicted.
C6_GetAfterPutReturnsValue ==
  last.op = "getCache" /\ last.given # NoEntry =>
    last.ret = Ret("value", last.given.value)

\* A getCache has followed a putCache of its path in a store of several.
C6_Witness ==
  /\ last.op = "getCache"
  /\ last.given # NoEntry
  /\ last.ret.kind = "value"
  /\ Len(fileCache) >= 2

\* C7: a getCache of a path that has no entry returns undefined and counts
\* one read; hits, the store and its order are as they were.
C7_MissChangesOnlyReads ==
  [][last'.op = "getCache" /\ ~HasKey(fileCache, last'.path) =>
       /\ last'.ret = Ret("undefined", NoValue)
       /\ cacheStats'.hits = cacheStats.hits
       /\ cacheStats'.reads = cacheStats.reads + 1
       /\ cacheStats'.readTimeMs = cacheStats.readTimeMs
       /\ fileCache' = fileCache
       /\ lastDigests' = lastDigests
    ]_vars

\* A miss after a hit, in a store of two or more.
C7_Witness ==
  /\ last.op = "getCache"
  /\ last.ret.kind = "undefined"
  /\ ~HasKey(fileCache, last.path)
  /\ Len(fileCache) >= 2
  /\ cacheStats.hits >= 1

\* C8: every getCache counts one read and leaves the ledger alone; a hit
\* counts one hit too, returns the value stored, and moves the entry to the
\* end of the store, the other entries keeping their order.
C8_GetCountsAndPromotes ==
  [][last'.op = "getCache" =>
       LET fp == last'.path
           n == Len(fileCache)
       IN  /\ cacheStats'.reads = cacheStats.reads + 1
           /\ lastDigests' = lastDigests
           /\ HasKey(fileCache, fp) =>
                /\ cacheStats'.hits = cacheStats.hits + 1
                /\ last'.ret = Ret("value", EntryOf(fileCache, fp).value)
                /\ Len(fileCache') = n
                /\ fileCache'[n] = EntryOf(fileCache, fp)
                /\ SubSeq(fileCache', 1, n - 1) = Delete(fileCache, fp)
    ]_vars

\* A hit in a store of three, the ledger holding a digest.
C8_Witness ==
  /\ last.op = "getCache"
  /\ last.ret.kind = "value"
  /\ Len(fileCache) = 3
  /\ DOMAIN lastDigests # {}

\* The call l is a loadFile of a non-hermetic path the ledger does not hold,
\* by a loader that allows non-hermetic reads.
Exempt(l) ==
  /\ l.op = "loadFile"
  /\ allowNonHermeticReads
  /\ isNonHermeticInput(l.path)
  /\ l.path \notin DOMAIN lastDigests

\* C9, as claimed: such a load, the file read, returns the file and leaves
\* the path out of the store.
C9_ExemptLoadLeavesPathUncached ==
  Exempt(last) /\ last.ret.kind # "IOError" =>
    /\ last.ret.kind = "value"
    /\ ~HasKey(fileCache, last.path)

\* C9, amended: such a load of a path that has no entry in the store, the
\* file read, returns the file and leaves the path out of the store; a
\* getCache of the path after it misses and a loadFile after it reads the
\* file again.  (A path that has an entry, cached while the ledger held it,
\* is served from the store and stays there.)
C9_ExemptMissLeavesPathUncached ==
  [][/\ Exempt(last') /\ ~HasKey(fileCache, last'.path)
          /\ last'.ret.kind # "IOError" =>
          /\ last'.ret.kind = "value"
          /\ last'.fresh
          /\ ~HasKey(fileCache', last'.path)
     /\ Exempt(last) /\ last.fresh /\ last'.path = last.path =>
          /\ last'.op = "getCache" => last'.ret = Ret("undefined", NoValue)
          /\ last'.op = "loadFile" => last'.fresh
    ]_vars

\* An exempt load has read and returned the file and not cached it.
C9_Witness ==
  /\ Exempt(last)
  /\ last.fresh
  /\ last.ret.kind = "value"
  /\ ~HasKey(fileCache, last.path)

\* C10, as claimed: isKnownInput(path) is true exactly for the keys of the
\* mapping the last updateCache was given, whatever digests it holds.
C10_KnownIffInLedger ==
  \A fp \in Paths : isKnownInput(fp) <=> fp \in DOMAIN lastDigests

\* C11: getLastDigest(filePath) returns the digest that the last
\* updateCache recorded for filePath, and throws exactly when none is
\* recorded; a recorded digest of any value, the empty string too, is
\* returned.
C11_LastDigestIsRecordedDigest ==
  \A fp \in Paths :
    /\ getLastDigest(fp).threw <=> fp \notin DOMAIN lastDigests
    /\ fp \in DOMAIN lastDigests =>
         getLastDigest(fp).digest = lastDigests[fp]

\* An entry that updateCache(digests) has to leave alone: its path is not
\* in digests, or its digest is the one digests has for its path.
Unchanged(e, digests) ==
  e.path \notin DOMAIN digests \/ e.digest = digests[e.path]

UnchangedIn(cache, digests) ==
  SelectSeq(cache, LAMBDA e : Unchanged(e, digests))

\* C12: updateCache(digests) leaves every entry whose path is not in
\* digests, and every entry whose digest is digests' for its path, as it
\* was: in the cache, with its value and its digest, in the same order among
\* themselves; and it leaves the statistics as they were.
C12_UpdateLeavesUnchangedEntries ==
  [][last'.op = "updateCache" =>
       /\ UnchangedIn(fileCache', lastDigests')
            = UnchangedIn(fileCache, lastDigests')
       /\ cacheStats' = cacheStats]_vars

C12_Witness ==
  /\ last.op = "updateCache"
  /\ last.stale # {}
  /\ Len(fileCache) >= 2
  /\ \E i \in 1..Len(fileCache) :
       fileCache[i].path \notin DOMAIN lastDigests
  /\ cacheStats.reads > 0
  /\ cacheStats.readTimeMs > 0

SameDigestWherePresent ==
  \A fp \in Paths :
    HasKey(fileCache, fp) /\ HasKey(fileCache', fp) =>
      EntryOf(fileCache', fp).digest = EntryOf(fileCache, fp).digest

\* C14 as stated: no step of updateCache, getCache, putCache or loadFile
\* takes an entry from one digest to another digest while its path stays
\* in the cache.
C14_NoStepChangesDigestInPlace ==
  [][SameDigestWherePresent]_vars

\* C14: no step of updateCache, getCache or loadFile takes an entry from
\* one digest to another digest while its path stays in the cache; a
\* putCache of a path that is in the cache replaces its entry, digest
\* included.
C14_OnlyPutChangesDigestInPlace ==
  [][/\ last'.op # "putCache" => SameDigestWherePresent
     /\ last'.op = "putCache" /\ HasKey(fileCache, last'.path) =>
          EntryOf(fileCache', last'.path) = 
            [path |-> last'.path, digest |-> last'.given.digest,
             value |-> last'.given.value]]_vars

C14_Witness ==
  /\ last.op = "updateCache"
  /\ last.stale # {}
  /\ \E i \in 1..Len(fileCache) :
       /\ fileCache[i].path \in DOMAIN lastDigests
       /\ fileCache[i].digest = lastDigests[fileCache[i].path]

\* C15: UncachedFileLoader.loadFile reads and parses the file on every
\* call, for every path, and leaves the cache's entries and their order,
\* the last digests and the statistics as they were.
C15_UncachedLoadLeavesCacheAlone ==
  [][last'.op = "uncachedLoadFile" =>
       /\ last'.fresh
       /\ last'.ret.kind \in {"value", "IOError"}
       /\ last'.ret.kind = "value" =>
            \E sourceText \in Texts :
              last'.ret.val = createSourceFile(last'.given.value[1],
                                               sourceText,
                                               last'.given.value[2])
       /\ fileCache' = fileCache
       /\ lastDigests' = lastDigests
       /\ cacheStats' = cacheStats]_vars

C15_Witness ==
  /\ last.op = "uncachedLoadFile"
  /\ last.ret.kind = "value"
  /\ HasKey(fileCache, last.path)
  /\ EntryOf(fileCache, last.path).value # last.ret.val
  /\ Len(fileCache) = 2
  /\ cacheStats.hits > 0

\* C16: resetStats sets hits, reads and readTimeMs to zero and leaves the
\* cache's entries, their order and the last digests as they were; a
\* getCache that follows it hits exactly the paths that were in the cache
\* before it.
C16_ResetStatsOnlyZeroesCounters ==
  [][/\ last'.op = "resetStats" =>
          /\ cacheStats' = [hits |-> 0, reads |-> 0, readTimeMs |-> 0]
          /\ fileCache' = fileCache
          /\ lastDigests' = lastDigests
     /\ last.op = "resetStats" /\ last'.op = "getCache" =>
          /\ last'.ret.kind = "value" <=> last'.path \in Keys(fileCache)
          /\ cacheStats'.reads = 1
          /\ cacheStats'.hits = IF last'.path \in Keys(fileCache)
                                  THEN 1 ELSE 0]_vars

C16_Witness ==
  /\ last.op = "resetStats"
  /\ Len(fileCache) >= 2
  /\ lastDigests # EmptyMap
  /\ cacheStats = [hits |-> 0, reads |-> 0, readTimeMs |-> 0]

\* C17: a loadFile that throws leaves the cache as it was: no entry is
\* inserted, deleted or moved, and the last digests are unchanged.  It
\* throws the read's error only after a miss, and 'missing input digest'
\* only after a miss of a path that is not exempt from caching and has no
\* digest; such a miss throws one or the other.
C17_FailedLoadLeavesCacheAlone ==
  [][last'.op = "loadFile" =>
       /\ last'.ret.kind \in {"IOError", "MissingDigest"} =>
            /\ fileCache' = fileCache
            /\ lastDigests' = lastDigests
            /\ ~HasKey(fileCache, last'.path)
       /\ last'.ret.kind = "MissingDigest" =>
            /\ ~NotCached(last'.path)
            /\ LastDigestMissing(last'.path)
       /\ (/\ ~HasKey(fileCache, last'.path)
           /\ ~NotCached(last'.path)
           /\ last'.path \notin DOMAIN lastDigests)
          => last'.ret.kind \in {"IOError", "MissingDigest"}]_vars

C17_Witness ==
  /\ last.op = "loadFile"
  /\ last.ret.kind = "MissingDigest"
  /\ last.path \notin DOMAIN lastDigests
  /\ Len(fileCache) >= 1

\* C18: a loadFile of a path that has an entry returns the entry's value
\* as it is, reads no file and throws nothing, whether or not the path has
\* a digest or is a non-hermetic input, and whatever file name and language
\* version it is asked for; the entry and the last digests stay as they
\* were.
C18_HitReturnsCachedValue ==
  [][last'.op = "loadFile" /\ HasKey(fileCache, last'.path) =>
       /\ ~last'.fresh
       /\ last'.ret = Ret("value", EntryOf(fileCache, last'.path).value)
       /\ HasKey(fileCache', last'.path)
       /\ EntryOf(fileCache', last'.path) = EntryOf(fileCache, last'.path)
       /\ lastDigests' = lastDigests]_vars

C18_Witness ==
  /\ last.op = "loadFile"
  /\ ~last.fresh
  /\ last.ret.kind = "value"
  /\ last.path = PathNM
  /\ allowNonHermeticReads
  /\ PathNM \notin DOMAIN lastDigests
  /\ last.ret.val[1] # last.given.value[1]
  /\ last.ret.val[3] # last.given.value[2]

\* C19: in every state reached by getCache, inCache, loadFile, putCache,
\* updateCache and resetStats, 0 <= hits <= reads.
C19_HitsAtMostReads ==
  /\ cacheStats.hits \in Nat
  /\ cacheStats.reads \in Nat
  /\ cacheStats.hits <= cacheStats.reads

C19_Witness ==
  /\ last.op = "inCache"
  /\ last.ret.kind = "true"
  /\ cacheStats.hits >= 1
  /\ cacheStats.hits < cacheStats.reads

\* C20: inCache(filePath) returns true exactly when filePath is in the
\* cache, which is when getCache(filePath) would hit, and does what
\* getCache does: reads is incremented; on a hit hits is incremented and
\* the entry moves to the end of the cache, the others keeping their order,
\* so that the next putCache under memory pressure, of another path, finds
\* it among the entries it keeps.
C20_InCacheActsAsGetCache ==
  [][/\ last'.op = "inCache" =>
          LET fp == last'.path
              hit == HasKey(fileCache, fp)
              n == Len(fileCache)
          IN  /\ last'.ret.kind = IF hit THEN "true" ELSE "false"
              /\ cacheStats'.reads = cacheStats.reads + 1
              /\ cacheStats'.hits = cacheStats.hits + IF hit THEN 1 ELSE 0
              /\ cacheStats'.readTimeMs = cacheStats.readTimeMs
              /\ lastDigests' = lastDigests
              /\ ~hit => fileCache' = fileCache
              /\ hit =>
                   /\ Len(fileCache') = n
                   /\ fileCache'[n] = EntryOf(fileCache, fp)
                   /\ SubSeq(fileCache', 1, n - 1) = Delete(fileCache, fp)
     /\ (/\ last.op = "inCache"
         /\ last.ret.kind = "true"
         /\ last'.op = "putCache"
         /\ last'.free
         /\ last'.path # last.path
         /\ Len(fileCache) >= 2)
        => /\ HasKey(fileCache', last.path)
           /\ EntryOf(fileCache', last.path) = EntryOf(fileCache, last.path)
    ]_vars

C20_Witness ==
  /\ last.op = "inCache"
  /\ last.ret.kind = "true"
  /\ Len(fileCache) = 2
  /\ fileCache[2].path = last.path
  /\ recency = <<fileCache[1].path, fileCache[2].path>>
  /\ cacheStats.hits = 1

====
